---- MODULE Spec2Model ----
(***************************************************************************)
(* Model of the tech_tracker item persistence layer (JsonItemStore), the   *)
(* Item record conversions, and the application handlers that drive the    *)
(* store (fetch_youtube_new_items, fetch_and_persist_youtube_items, the    *)
(* CLI modify command), and the recommenders (LatestRecommender,           *)
(* KeywordFromSeenRecommender, recommend_keyword_from_seen).               *)
(*                                                                         *)
(* Conventions                                                             *)
(*  - item_id strings are numbered 1, 2, 3 in lexicographic order; NoId  *)
(*    stands for a missing, None or empty item_id (falsy in Python).       *)
(*  - a published value is either an aware UTC datetime (sec, us) or an    *)
(*    ISO-8601 text (wall-clock seconds, number of fractional digits,      *)
(*    fractional value in microseconds, UTC-offset suffix), or a text that *)
(*    datetime.fromisoformat rejects.                                      *)
(***************************************************************************)
EXTENDS Integers, Sequences, FiniteSets, TLC

VARIABLES file, last, ret

vars == <<file, last, ret>>

-----------------------------------------------------------------------------
(* Bounds *)

MaxBatch == 2

\* longest list of request items handed to a recommender
MaxReq == 3

\* largest limit of a recommendation request
MaxLimit == 3

-----------------------------------------------------------------------------
(* Values *)

NoId == 0

ItemIds == {1, 2, 3}

Titles == {"First Video", "Updated Article"}

\* an aware UTC datetime
Dt(sec, us) == [tag |-> "datetime", sec |-> sec, nd |-> 0, us |-> us, off |-> "UTC"]

\* a datetime with wall-clock seconds and a tzinfo: "UTC", "+01:00", or "" for
\* a naive datetime
DtTz(wall, us, off) == [tag |-> "datetime", sec |-> wall, nd |-> 0, us |-> us, off |-> off]

IsoStr(wall, nd, us, off) == [tag |-> "str", sec |-> wall, nd |-> nd, us |-> us, off |-> off]

BadStr == [tag |-> "badstr", sec |-> 0, nd |-> 0, us |-> 0, off |-> "not a date"]

\* the empty text "": falsy in Python, and rejected by fromisoformat
EmptyStr == [tag |-> "empty", sec |-> 0, nd |-> 0, us |-> 0, off |-> ""]

\* Python truthiness of a published value
truthy(p) == p.tag # "empty"

\* seconds east of UTC of an offset suffix; "" is a naive text
utcoffset(off) == IF off = "+01:00" THEN 3600 ELSE 0

\* datetime.astimezone(timezone.utc) of an aware datetime
astimezone_utc(dt) == Dt(dt.sec - utcoffset(dt.off), dt.us)

\* item_store._dt_to_str (and the same expression in Item.to_dict):
\* astimezone(utc).isoformat() with "+00:00" -> "Z".  isoformat prints six
\* fractional digits exactly when microsecond # 0.
dt_to_str(dt) ==
    LET utc_time == astimezone_utc(dt)
    IN  IsoStr(utc_time.sec, IF utc_time.us = 0 THEN 0 ELSE 6, utc_time.us, "Z")

\* datetime.fromisoformat accepts the text
fromisoformat_ok(s) == s.tag = "str"

\* item_store._str_to_dt: "Z" -> "+00:00", fromisoformat, naive taken as UTC,
\* aware converted to UTC.
str_to_dt(s) ==
    LET off == IF s.off = "Z" THEN "+00:00" ELSE s.off
    IN  IF off = "" THEN Dt(s.sec, s.us)
        ELSE Dt(s.sec - utcoffset(off), s.us)

\* datetime.__le__ on two aware UTC datetimes
dt_le(a, b) == a.sec < b.sec \/ (a.sec = b.sec /\ a.us <= b.us)

\* An item dictionary.  type = "dict" for a JSON object, "str" for a JSON
\* element that is not an object; seen = "absent" when the key is missing.
MkItem(id, title, published, seen) ==
    [type |-> "dict", item_id |-> id, title |-> title,
     published |-> published, seen |-> seen]

NotADict ==
    [type |-> "str", item_id |-> NoId, title |-> "not a dict",
     published |-> BadStr, seen |-> "absent"]

\* item dictionaries a caller hands to save_many: two titles, two instants
\* (one with a sub-second part), datetime and text forms that denote the same
\* instant, a text that does not parse, with and without a seen key, and an
\* item without item_id
InputItems ==
    { MkItem(id, "First Video", Dt(3600, 0), "absent") : id \in ItemIds }
    \cup { MkItem(id, "Updated Article", IsoStr(7200, 0, 0, "+01:00"), "absent") : id \in ItemIds }
    \cup { MkItem(id, "First Video", Dt(0, 500000), "true") : id \in ItemIds }
    \cup { MkItem(id, "First Video", BadStr, "absent") : id \in ItemIds }
    \cup { MkItem(NoId, "Updated Article", BadStr, "absent") }

\* a video entry as parse_youtube_feed returns it; NoId is a missing video_id
MkVideo(id, title, published) ==
    [video_id |-> id, title |-> title, published |-> published]

Videos ==
    { MkVideo(id, "First Video", Dt(3600, 0)) : id \in ItemIds \cup {NoId} }
    \cup { MkVideo(id, "Updated Article", Dt(3600, 0)) : id \in ItemIds }

SeqsUpTo(S, n) == UNION { [1..k -> S] : k \in 0..n }

Batches == SeqsUpTo(InputItems, MaxBatch)

Feeds == SeqsUpTo(Videos, MaxBatch)

\* the entries of the feed of the update tests: three videos, a re-titled
\* second video, and an entry without video_id
FeedEntries ==
    { MkVideo(1, "First Video", Dt(3600, 0)),
      MkVideo(2, "First Video", Dt(3600, 0)),
      MkVideo(2, "Updated Article", Dt(3600, 0)),
      MkVideo(3, "First Video", Dt(3600, 0)),
      MkVideo(NoId, "First Video", Dt(3600, 0)) }

FetchFeeds == SeqsUpTo(FeedEntries, MaxBatch)

-----------------------------------------------------------------------------
(* The store file: absent, or a text that is not JSON, or a JSON document  *)
(* without an "items" key, or with "items" not a list, or {"items": [...]}. *)

AbsentFile == [kind |-> "absent", items |-> <<>>]

ItemsFile(items) == [kind |-> "items", items |-> items]

NoError == "none"

\* mutant: a malformed element is skipped instead of aborting the load
RECURSIVE load_items_skip_bad(_, _)
load_items_skip_bad(items, result) ==
    IF items = <<>> THEN [error |-> NoError, items |-> result]
    ELSE LET item == Head(items)
         IN  IF item.type # "dict" \/ item.published.tag = "badstr"
             THEN load_items_skip_bad(Tail(items), result)
             ELSE IF ~truthy(item.published)
             THEN load_items_skip_bad(Tail(items), Append(result, item))
             ELSE load_items_skip_bad(Tail(items),
                      Append(result, [item EXCEPT !.published = str_to_dt(@)]))

\* JsonItemStore.load_all, the loop over data["items"]: the first element that
\* is not a dict, or whose non-empty published text does not parse, aborts the
\* load; an empty published is returned as it is.
RECURSIVE load_items(_, _)
load_items(items, result) ==
    IF items = <<>> THEN [error |-> NoError, items |-> result]
    ELSE LET item == Head(items)
         IN  IF item.type # "dict"
             THEN [error |-> "Invalid item: item must be a dictionary", items |-> <<>>]
             ELSE IF ~truthy(item.published)
             THEN load_items(Tail(items), Append(result, item))
             ELSE IF ~fromisoformat_ok(item.published)
             THEN [error |-> "Invalid published timestamp", items |-> <<>>]
             ELSE load_items(Tail(items),
                      Append(result, [item EXCEPT !.published = str_to_dt(@)]))

\* mutant: the path.exists() test is missing, open() raises on a missing file
load_all_no_exists_check(f) ==
    CASE f.kind = "absent" -> [error |-> "FileNotFoundError", items |-> <<>>]
      [] f.kind = "invalid_json" -> [error |-> "Invalid JSON", items |-> <<>>]
      [] f.kind = "no_items_key" ->
            [error |-> "Invalid structure: missing 'items' key", items |-> <<>>]
      [] f.kind = "items_not_list" ->
            [error |-> "Invalid structure: 'items' must be a list", items |-> <<>>]
      [] OTHER -> load_items(f.items, <<>>)

\* JsonItemStore.load_all
load_all(f) ==
    CASE f.kind = "absent" -> [error |-> NoError, items |-> <<>>]
      [] f.kind = "invalid_json" -> [error |-> "Invalid JSON", items |-> <<>>]
      [] f.kind = "no_items_key" ->
            [error |-> "Invalid structure: missing 'items' key", items |-> <<>>]
      [] f.kind = "items_not_list" ->
            [error |-> "Invalid structure: 'items' must be a list", items |-> <<>>]
      [] OTHER -> load_items(f.items, <<>>)

\* mutant: a list append instead of a keyed assignment
dict_set_append(d, item) == Append(d, item)

\* mutant: existing_items.setdefault(item_id, item), the first value stays
dict_set_keep_old(d, item) ==
    IF \E i \in 1..Len(d) : d[i].item_id = item.item_id THEN d ELSE Append(d, item)

\* existing_items[item_id] = item on a Python dict, which keeps insertion
\* order: an existing key keeps its place and gets the new value.
dict_set(d, item) ==
    IF \E i \in 1..Len(d) : d[i].item_id = item.item_id
    THEN [i \in 1..Len(d) |->
             IF d[i].item_id = item.item_id THEN item ELSE d[i]]
    ELSE Append(d, item)

\* mutant: the item_id test inverted, so no stored item is carried over
index_existing_inverted(items, d) == <<>>

\* save_many lines 118-125: the loaded items that have an item_id, keyed by it
RECURSIVE index_existing(_, _)
index_existing(items, d) ==
    IF items = <<>> THEN d
    ELSE LET item == Head(items)
         IN  index_existing(Tail(items),
                 IF item.item_id # NoId THEN dict_set(d, item) ELSE d)

\* save_many lines 136-148 and 171-183: published as canonical text; a text
\* that does not parse is left as it is.
normalize_published(p) ==
    IF ~truthy(p) THEN p
    ELSE IF p.tag = "datetime" THEN dt_to_str(p)
    ELSE IF fromisoformat_ok(p) THEN dt_to_str(str_to_dt(p))
    ELSE p

\* mutant: the batch is appended without looking at item_id at all
merge_items_no_dedup(items, d) ==
    d \o [i \in 1..Len(items) |->
             [items[i] EXCEPT !.published = normalize_published(@)]]

\* mutant: the "if not item_id: continue" test is missing
RECURSIVE merge_items_keep_no_id(_, _)
merge_items_keep_no_id(items, d) ==
    IF items = <<>> THEN d
    ELSE merge_items_keep_no_id(Tail(items),
             dict_set(d, [Head(items) EXCEPT !.published = normalize_published(@)]))

\* save_many lines 127-150: merge the batch, skipping items without item_id
RECURSIVE merge_items(_, _)
merge_items(items, d) ==
    IF items = <<>> THEN d
    ELSE LET item == Head(items)
         IN  merge_items(Tail(items),
                 IF item.item_id = NoId THEN d
                 ELSE dict_set(d, [item EXCEPT !.published = normalize_published(@)]))

\* save_many lines 158-161: the grouping key of an item
time_key(item) ==
    IF item.published.tag = "datetime" THEN item.published
    ELSE str_to_dt(item.published)

\* sorted(time_groups[time_key], key=lambda x: x["item_id"]): stable
RECURSIVE sorted_by_item_id(_)
sorted_by_item_id(s) ==
    IF s = <<>> THEN <<>>
    ELSE LET rest == sorted_by_item_id(SubSeq(s, 1, Len(s) - 1))
             x == s[Len(s)]
             n == Cardinality({i \in 1..Len(rest) : rest[i].item_id <= x.item_id})
         IN  SubSeq(rest, 1, n) \o <<x>> \o SubSeq(rest, n + 1, Len(rest))

\* mutant: reverse=True forgotten, oldest group first
RECURSIVE sorted_keys_forward(_)
sorted_keys_forward(keys) ==
    IF keys = {} THEN <<>>
    ELSE LET k == CHOOSE k \in keys : \A j \in keys : dt_le(k, j)
         IN  <<k>> \o sorted_keys_forward(keys \ {k})

\* sorted(time_groups.keys(), reverse=True)
RECURSIVE sorted_keys_reverse(_)
sorted_keys_reverse(keys) ==
    IF keys = {} THEN <<>>
    ELSE LET k == CHOOSE k \in keys : \A j \in keys : dt_le(j, k)
         IN  <<k>> \o sorted_keys_reverse(keys \ {k})

\* save_many lines 152-168: group by published instant, newest group first,
\* each group by item_id
RECURSIVE extend_groups(_, _)
extend_groups(keys, values) ==
    IF keys = <<>> THEN <<>>
    ELSE sorted_by_item_id(SelectSeq(values, LAMBDA x : time_key(x) = Head(keys)))
         \o extend_groups(Tail(keys), values)

\* mutant: the merged items are written in insertion order
sort_items_insertion_order(values) == values

sort_items(values) ==
    extend_groups(
        sorted_keys_reverse({time_key(values[i]) : i \in 1..Len(values)}), values)

unparsable(item) ==
    item.published.tag # "datetime" /\ ~fromisoformat_ok(item.published)

\* mutant: the file is opened for writing before the items are grouped, so a
\* ValueError leaves an emptied file behind
write_sorted_early_open(f, merged) ==
    IF \E i \in 1..Len(merged) : unparsable(merged[i])
    THEN [error |-> "ValueError", file |-> ItemsFile(<<>>)]
    ELSE [error |-> NoError,
          file |-> ItemsFile([i \in 1..Len(merged) |->
              [sort_items(merged)[i] EXCEPT !.published = normalize_published(@)]])]

\* save_many lines 152-192: group and sort, canonical published text, then
\* write the file.  _str_to_dt in the grouping loop (line 159) raises
\* ValueError on a published text that does not parse, before the file is
\* opened, so the file is then untouched.
write_sorted(f, merged) ==
    IF \E i \in 1..Len(merged) : unparsable(merged[i])
    THEN [error |-> "ValueError", file |-> f]
    ELSE LET sorted_items == sort_items(merged)
         IN  [error |-> NoError,
              file |-> ItemsFile([i \in 1..Len(sorted_items) |->
                  [sorted_items[i] EXCEPT !.published = normalize_published(@)]])]

\* JsonItemStore.save_many: the error it raises or the file it writes.  A
\* load error is swallowed and the merge starts from nothing.
save_many(f, items) ==
    LET loaded == load_all(f)
        existing_items ==
            IF loaded.error = NoError THEN index_existing(loaded.items, <<>>)
            ELSE <<>>
    IN  write_sorted(f, merge_items(items, existing_items))

-----------------------------------------------------------------------------
(* Application handlers *)

\* youtube_to_items.youtube_videos_to_items for one source: entries with a
\* missing field are skipped; the item dictionaries carry no seen key.
RECURSIVE youtube_videos_to_items(_)
youtube_videos_to_items(videos) ==
    IF videos = <<>> THEN <<>>
    ELSE LET video == Head(videos)
             rest == youtube_videos_to_items(Tail(videos))
         IN  IF video.video_id = NoId THEN rest
             ELSE <<MkItem(video.video_id, video.title, video.published, "absent")>>
                  \o rest

\* mutant: an item_id that was returned counts as existing from then on
RECURSIVE diff_new_items_once(_, _)
diff_new_items_once(old_items, new_items) ==
    IF new_items = <<>> THEN <<>>
    ELSE LET item == Head(new_items)
             existing_ids ==
                 {old_items[i].item_id : i \in 1..Len(old_items)} \ {NoId}
         IN  IF item.item_id # NoId /\ item.item_id \notin existing_ids
             THEN <<item>> \o diff_new_items_once(Append(old_items, item), Tail(new_items))
             ELSE diff_new_items_once(old_items, Tail(new_items))

\* item_diff.diff_new_items
diff_new_items(old_items, new_items) ==
    LET existing_ids ==
            {old_items[i].item_id : i \in {j \in 1..Len(old_items) : old_items[j].item_id # NoId}}
    IN  SelectSeq(new_items,
            LAMBDA item : item.item_id # NoId /\ item.item_id \notin existing_ids)

\* mutant: the diff is computed after the fetched items were saved
fetch_youtube_new_items_diff_after_save(f, videos) ==
    LET loaded == load_all(f)
        new_items == youtube_videos_to_items(videos)
        saved == save_many(f, new_items)
    IN  IF loaded.error # NoError
        THEN [error |-> loaded.error, file |-> f, ret |-> <<>>]
        ELSE [error |-> saved.error, file |-> saved.file,
              ret |-> IF saved.error = NoError
                      THEN diff_new_items(load_all(saved.file).items, new_items) ELSE <<>>]

\* app_update.fetch_youtube_new_items: a load error propagates before
\* anything is fetched or saved.
fetch_youtube_new_items(f, videos) ==
    LET loaded == load_all(f)
        new_items == youtube_videos_to_items(videos)
        saved == save_many(f, new_items)
    IN  IF loaded.error # NoError
        THEN [error |-> loaded.error, file |-> f, ret |-> <<>>]
        ELSE [error |-> saved.error, file |-> saved.file,
              ret |-> IF saved.error = NoError
                      THEN diff_new_items(loaded.items, new_items) ELSE <<>>]

\* app.persist.fetch_and_persist_youtube_items: returns len(items)
fetch_and_persist_youtube_items(f, videos) ==
    LET items == youtube_videos_to_items(videos)
        saved == save_many(f, items)
    IN  [error |-> saved.error, file |-> saved.file, ret |-> Len(items)]

\* cli.handle_modify_command: load_all returns dictionaries, so the lookup
\* item.item_id raises AttributeError on the first stored item; every
\* exception is caught and turned into exit code 1.  The store is only
\* written by the save_many call at the end, which is never reached.
handle_modify_command(f, action, item_id) ==
    LET loaded == load_all(f)
    IN  IF loaded.error # NoError
        THEN [code |-> 1, error |-> loaded.error, file |-> f]
        ELSE IF loaded.items = <<>>
        THEN [code |-> 1, error |-> "not found", file |-> f]
        ELSE [code |-> 1, error |-> "AttributeError", file |-> f]

-----------------------------------------------------------------------------
(* Store files written from outside the store, as the store tests do with  *)
(* write_text: not JSON, no "items" key, "items" not a list, a list with an *)
(* element that is not an object after a valid one, a list whose item has   *)
(* an unparsable published text after a valid one, a list whose item has   *)
(* an empty published text.                                                *)

ValidElement == MkItem(1, "First Video", IsoStr(3600, 0, 0, "Z"), "absent")

ForeignFiles ==
    { [kind |-> "invalid_json", items |-> <<>>],
      [kind |-> "no_items_key", items |-> <<>>],
      [kind |-> "items_not_list", items |-> <<>>],
      ItemsFile(<<ValidElement, NotADict>>),
      ItemsFile(<<ValidElement, MkItem(2, "First Video", BadStr, "absent")>>),
      ItemsFile(<<ValidElement, MkItem(2, "First Video", EmptyStr, "absent")>>) }

-----------------------------------------------------------------------------------------------------------------------------------------------------
(* The Item dataclass.  title stands for the free-text fields (source_type, *)
(* source_url, title, link), which to_dict and from_dict copy alike.  The   *)
(* dataclass has no seen field.                                             *)

MkItemObject(id, title, published) ==
    [item_id |-> id, title |-> title, published |-> published]

\* Item.to_dict
to_dict(item) ==
    MkItem(item.item_id, item.title, dt_to_str(item.published), "absent")

\* Item.from_dict: a published text must end with "Z" and parse; a datetime
\* must be aware; a seen key of the dictionary is not read.
from_dict(d) ==
    IF d.published.tag # "datetime"
    THEN IF d.published.off # "Z" \/ ~fromisoformat_ok(d.published)
         THEN [error |-> "ValueError", item |-> MkItemObject(NoId, "", d.published)]
         ELSE [error |-> NoError,
               item |-> MkItemObject(d.item_id, d.title, str_to_dt(d.published))]
    ELSE IF d.published.off = ""
         THEN [error |-> "ValueError", item |-> MkItemObject(NoId, "", d.published)]
         ELSE [error |-> NoError,
               item |-> MkItemObject(d.item_id, d.title, astimezone_utc(d.published))]

\* dataclass equality: datetimes compare equal when they are the same instant
item_eq(a, b) ==
    /\ a.item_id = b.item_id
    /\ a.title = b.title
    /\ astimezone_utc(a.published) = astimezone_utc(b.published)

\* dictionaries handed to Item.from_dict: canonical and non-canonical "Z"
\* texts, a text without "Z", a text that is no date, aware and naive
\* datetimes; with seen missing, true and false
DictPubs ==
    { IsoStr(3600, 0, 0, "Z"), IsoStr(0, 6, 500000, "Z"), IsoStr(3600, 6, 0, "Z"),
      IsoStr(3600, 0, 0, "+00:00"), BadStr,
      Dt(3600, 0), DtTz(7200, 0, "+01:00"), DtTz(3600, 0, "") }

ItemDicts ==
    { MkItem(id, t, p, sn) :
        id \in ItemIds, t \in Titles, p \in DictPubs, sn \in {"absent", "true", "false"} }

ItemObjects ==
    { MkItemObject(id, t, p) :
        id \in ItemIds, t \in Titles,
        p \in { Dt(3600, 0), Dt(0, 500000), DtTz(7200, 0, "+01:00") } }

-----------------------------------------------------------------------------
(* The recommenders (app/recommend.py).  A title is a sequence of          *)
(* characters; a token is a non-empty sequence of characters.  A request   *)
(* item is an object with the attributes the recommenders read: item_id,   *)
(* title, published and seen.  seen = "absent" is an Item of item.py,      *)
(* which has no such attribute; "true" and "false" are the items the       *)
(* recommender tests build with seen=True and seen=False.                  *)

MkRecItem(id, title, published, seen) ==
    [item_id |-> id, title |-> title, published |-> published, seen |-> seen]

\* the character class [a-zA-Z0-9] of the tokenizer's pattern
AlnumChars == {"C", "G", "P", "c", "g", "o", "p", "y", "3"}

\* str.lower on one character
lower(c) ==
    CASE c = "C" -> "c"
      [] c = "G" -> "g"
      [] c = "P" -> "p"
      [] OTHER -> c

\* ord of the characters a token can hold
ord(c) ==
    CASE c = "3" -> 51
      [] c = "c" -> 99
      [] c = "g" -> 103
      [] c = "o" -> 111
      [] c = "p" -> 112
      [] c = "y" -> 121
      [] c = "#" -> 35
      [] c = "+" -> 43
      [] OTHER -> 32

\* str.lower on a token
token_lower(token) == [i \in 1..Len(token) |-> lower(token[i])]

\* re.split(r'[^a-zA-Z0-9]', title): the pieces between separators, empty
\* pieces included; cur is the piece being read
RECURSIVE re_split(_, _, _)
re_split(title, i, cur) ==
    IF i > Len(title) THEN <<cur>>
    ELSE IF title[i] \in AlnumChars
         THEN re_split(title, i + 1, Append(cur, title[i]))
         ELSE <<cur>> \o re_split(title, i + 1, <<>>)

\* tokenize_title (the same helper in recommend_keyword_from_seen and in
\* _extract_top_keywords): split, drop empty pieces, lower-case
tokenize_title(title) ==
    LET tokens == re_split(title, 1, <<>>)
        kept == SelectSeq(tokens, LAMBDA token : token # <<>>)
    IN  [i \in 1..Len(kept) |-> token_lower(kept[i])]

\* Counter()
EmptyCounter == [k \in {} |-> 0]

\* Counter.update(tokens): one count per element of the list
RECURSIVE counter_update(_, _)
counter_update(counts, tokens) ==
    IF tokens = <<>> THEN counts
    ELSE LET t == Head(tokens)
             added == [k \in DOMAIN counts \cup {t} |->
                          (IF k \in DOMAIN counts THEN counts[k] ELSE 0)
                          + (IF k = t THEN 1 ELSE 0)]
         IN  counter_update(added, Tail(tokens))

\* item.seen of a request item that has the attribute
is_seen(item) == item.seen = "true"

\* reading item.seen raises AttributeError on an object without it
has_seen(item) == item.seen # "absent"

\* the keyword table: seen items' title tokens, counted
RECURSIVE count_keywords(_, _)
count_keywords(seen_items, keyword_counts) ==
    IF seen_items = <<>> THEN keyword_counts
    ELSE count_keywords(Tail(seen_items),
             counter_update(keyword_counts, tokenize_title(Head(seen_items).title)))

\* sum(keyword_counts[token] for token in tokens if token in keyword_counts)
RECURSIVE score_tokens(_, _)
score_tokens(tokens, keyword_counts) ==
    IF tokens = <<>> THEN 0
    ELSE (IF Head(tokens) \in DOMAIN keyword_counts
          THEN keyword_counts[Head(tokens)] ELSE 0)
         + score_tokens(Tail(tokens), keyword_counts)

\* a < b for datetimes (-a.timestamp() > -b.timestamp())
dt_lt(a, b) == a.sec < b.sec \/ (a.sec = b.sec /\ a.us < b.us)

\* key (-published.timestamp(), item_id) of a is less than that of b
latest_key_lt(a, b) ==
    \/ dt_lt(b.published, a.published)
    \/ (a.published = b.published /\ a.item_id < b.item_id)

\* key (-score, -published.timestamp(), item_id) of a is less than that of b;
\* a and b are (item, score) pairs
scored_key_lt(a, b) ==
    \/ a[2] > b[2]
    \/ (a[2] = b[2] /\ latest_key_lt(a[1], b[1]))

\* sorted(items_to_process, key=...): stable, so x goes after the elements
\* whose key is not greater than its own
insert_latest(sorted_items, x) ==
    LET n == Len(sorted_items)
        k == Cardinality({ j \in 1..n : ~latest_key_lt(x, sorted_items[j]) })
    IN  SubSeq(sorted_items, 1, k) \o <<x>> \o SubSeq(sorted_items, k + 1, n)

sorted_latest(items) ==
    LET F[i \in 0..Len(items)] ==
            IF i = 0 THEN <<>> ELSE insert_latest(F[i - 1], items[i])
    IN  F[Len(items)]

\* scored_items.sort(key=...): stable as well
insert_scored(sorted_items, x) ==
    LET n == Len(sorted_items)
        k == Cardinality({ j \in 1..n : ~scored_key_lt(x, sorted_items[j]) })
    IN  SubSeq(sorted_items, 1, k) \o <<x>> \o SubSeq(sorted_items, k + 1, n)

sort_scored(scored_items) ==
    LET F[i \in 0..Len(scored_items)] ==
            IF i = 0 THEN <<>> ELSE insert_scored(F[i - 1], scored_items[i])
    IN  F[Len(scored_items)]

\* s[:limit] for limit >= 0
take(s, limit) == SubSeq(s, 1, IF limit < Len(s) THEN limit ELSE Len(s))

\* the error value of a call that returned
NoMeta == [strategy |-> "none"]

\* LatestRecommender.recommend(RecommendRequest(items, limit))
LatestRecommender_recommend(items, limit) ==
    IF \E i \in 1..Len(items) : ~has_seen(items[i])
    THEN [error |-> "AttributeError", items |-> <<>>, meta |-> NoMeta]
    ELSE LET unseen_items == SelectSeq(items, LAMBDA item : ~is_seen(item))
             items_to_process == IF unseen_items # <<>> THEN unseen_items ELSE items
             sorted_items == sorted_latest(items_to_process)
             limited_items == take(sorted_items, limit)
         IN  [error |-> NoError,
              items |-> limited_items,
              meta |-> [strategy |-> "latest",
                        limit |-> limit,
                        filtered |-> Len(unseen_items) > 0,
                        total_items |-> Len(items),
                        unseen_items |-> Len(unseen_items)]]

\* the keyword table both keyword functions build from the seen items
keyword_table(items) ==
    count_keywords(SelectSeq(items, is_seen), EmptyCounter)

\* recommend_keyword_from_seen(items, limit)
recommend_keyword_from_seen(items, limit) ==
    IF \E i \in 1..Len(items) : ~has_seen(items[i])
    THEN [error |-> "AttributeError", items |-> <<>>]
    ELSE LET keyword_counts == keyword_table(items)
             unseen_items == SelectSeq(items, LAMBDA item : ~is_seen(item))
             candidate_items == IF unseen_items # <<>> THEN unseen_items ELSE items
             scored_items ==
                 [i \in 1..Len(candidate_items) |->
                     <<candidate_items[i],
                       score_tokens(tokenize_title(candidate_items[i].title), keyword_counts)>>]
             sorted_scored == sort_scored(scored_items)
             limited == take(sorted_scored, limit)
         IN  IF DOMAIN keyword_counts = {}
             THEN [error |-> NoError, items |-> <<>>]
             ELSE [error |-> NoError,
                   items |-> [i \in 1..Len(limited) |-> limited[i][1]]]

\* a < b for tokens (str comparison by code point)
RECURSIVE token_lt(_, _)
token_lt(a, b) ==
    IF b = <<>> THEN FALSE
    ELSE IF a = <<>> THEN TRUE
    ELSE IF ord(Head(a)) # ord(Head(b)) THEN ord(Head(a)) < ord(Head(b))
    ELSE token_lt(Tail(a), Tail(b))

\* sorted(keyword_counts.items(), key=lambda x: (-x[1], x[0])): the keys are
\* pairwise different, so each pair goes to the place its key has
sorted_keywords(keyword_counts) ==
    LET K == DOMAIN keyword_counts
        before(a, b) ==
            \/ keyword_counts[a] > keyword_counts[b]
            \/ (keyword_counts[a] = keyword_counts[b] /\ token_lt(a, b))
        rank(k) == 1 + Cardinality({ j \in K : before(j, k) })
    IN  [i \in 1..Cardinality(K) |->
            LET k == CHOOSE k \in K : rank(k) = i IN <<k, keyword_counts[k]>>]

\* KeywordFromSeenRecommender._extract_top_keywords(items)
extract_top_keywords(items) == sorted_keywords(keyword_table(items))

\* KeywordFromSeenRecommender.recommend(RecommendRequest(items, limit))
KeywordFromSeenRecommender_recommend(items, limit) ==
    LET r == recommend_keyword_from_seen(items, limit)
    IN  IF r.error # NoError
        THEN [error |-> r.error, items |-> <<>>, meta |-> NoMeta]
        ELSE [error |-> NoError,
              items |-> r.items,
              meta |-> [strategy |-> "keyword_from_seen",
                        limit |-> limit,
                        total_items |-> Len(items),
                        top_keywords |-> extract_top_keywords(items)]]

\* titles of request items
T_CppGo == <<"C", "+", "+", " ", "G", "o">>

T_CsPy == <<"C", "#", " ", "P", "y">>

T_PyPyGo == <<"p", "y", " ", "p", "y", " ", "g", "o">>

T_GoGoPy == <<"g", "o", " ", "g", "o", " ", "p", "y">>

T_PyGo == <<"P", "y", " ", "G", "o">>

T_C == <<"c">>

T_Py3 == <<"P", "y", "3">>

T_Bang == <<"!", "!">>

\* request items: Items as item.py defines them (no seen attribute), and
\* items with seen=True and seen=False as the recommender tests build them
RecItems ==
    { MkRecItem(1, T_PyGo, Dt(3600, 0), "absent"),
      MkRecItem(1, T_CppGo, Dt(3600, 0), "true"),
      MkRecItem(2, T_PyGo, Dt(3600, 0), "true"),
      MkRecItem(3, T_Bang, Dt(0, 500000), "true"),
      MkRecItem(2, T_PyPyGo, Dt(7200, 0), "true"),
      MkRecItem(1, T_PyPyGo, Dt(0, 500000), "false"),
      MkRecItem(2, T_GoGoPy, Dt(3600, 0), "false"),
      MkRecItem(3, T_PyGo, Dt(3600, 0), "false"),
      MkRecItem(2, T_C, Dt(7200, 0), "false"),
      MkRecItem(3, T_CsPy, Dt(3600, 0), "false"),
      MkRecItem(1, T_Py3, Dt(0, 0), "false") }

Requests == SeqsUpTo(RecItems, MaxReq)

Limits == 0..MaxLimit

-----
(* Operations *)

Init ==
    /\ file = AbsentFile
    /\ last = [op |-> "init", error |-> NoError]
    /\ ret = <<>>

SaveManyOp ==
    \E items \in Batches :
        LET r == save_many(file, items)
        IN  /\ file' = r.file
            /\ last' = [op |-> "save_many", error |-> r.error]
            /\ ret' = <<>>

LoadAllOp ==
    LET r == load_all(file)
    IN  /\ last' = [op |-> "load_all", error |-> r.error]
        /\ ret' = r.items
        /\ UNCHANGED file

FetchNewItemsOp ==
    \E videos \in Feeds :
        LET r == fetch_youtube_new_items(file, videos)
        IN  /\ file' = r.file
            /\ last' = [op |-> "fetch_youtube_new_items", error |-> r.error]
            /\ ret' = <<>>

FetchAndPersistOp ==
    \E videos \in Feeds :
        LET r == fetch_and_persist_youtube_items(file, videos)
        IN  /\ file' = r.file
            /\ last' = [op |-> "fetch_and_persist_youtube_items", error |-> r.error]
            /\ ret' = <<>>

ModifyOp ==
    \E action \in {"seen", "unseen"}, item_id \in ItemIds :
        LET r == handle_modify_command(file, action, item_id)
        IN  /\ file' = r.file
            /\ last' = [op |-> "modify", error |-> r.error]
            /\ ret' = <<>>

WriteTextOp ==
    \E f \in ForeignFiles :
        /\ file' = f
        /\ last' = [op |-> "write_text", error |-> NoError]
        /\ ret' = <<>>

Next ==
    \/ SaveManyOp
    \/ LoadAllOp
    \/ FetchNewItemsOp
    \/ FetchAndPersistOp
    \/ ModifyOp
    \/ WriteTextOp

Spec == Init /\ [][Next]_vars

\* Item.to_dict(Item.from_dict(d)) as the Item tests call it
FromDictToDictOp ==
    \E d \in ItemDicts :
        LET r == from_dict(d)
        IN  /\ last' = [op |-> "from_dict", error |-> r.error]
            /\ ret' = IF r.error = NoError THEN <<d, to_dict(r.item)>> ELSE <<d>>
            /\ UNCHANGED file

\* Item.from_dict(item.to_dict())
ToDictFromDictOp ==
    \E item \in ItemObjects :
        LET r == from_dict(to_dict(item))
        IN  /\ last' = [op |-> "to_dict", error |-> r.error]
            /\ ret' = <<item, r.item>>
            /\ UNCHANGED file

NextItem ==
    \/ FromDictToDictOp
    \/ ToDictFromDictOp

SpecItem == Init /\ [][NextItem]_vars

\* fetch_youtube_new_items(config_path, downloader, store) with the feed the
\* downloader serves; the feed and the returned list are kept
FetchFeedOp ==
    \E videos \in FetchFeeds :
        LET r == fetch_youtube_new_items(file, videos)
        IN  /\ file' = r.file
            /\ last' = [op |-> "fetch_youtube_new_items", error |-> r.error]
            /\ ret' = [videos |-> videos, added |-> r.ret]

\* load_all between two fetches
LoadStoreOp ==
    /\ last.op # "load_all"
    /\ last' = [op |-> "load_all", error |-> load_all(file).error]
    /\ ret' = [videos |-> <<>>, added |-> load_all(file).items]
    /\ UNCHANGED file

NextFetch ==
    \/ FetchFeedOp
    \/ LoadStoreOp

SpecFetch == Init /\ [][NextFetch]_vars

\* largest length of the two lists handed to diff_new_items
MaxDiffLen == 2

\* the items of the diff tests: an item_id with two titles, two more
\* item_ids, and an item without item_id
DiffItems ==
    { MkItem(1, "First Video", Dt(3600, 0), "absent"),
      MkItem(1, "Updated Article", Dt(3600, 0), "absent"),
      MkItem(2, "First Video", Dt(3600, 0), "absent"),
      MkItem(3, "First Video", Dt(3600, 0), "absent"),
      MkItem(NoId, "First Video", Dt(3600, 0), "absent") }

DiffLists == SeqsUpTo(DiffItems, MaxDiffLen)

\* the two lists about to be handed to diff_new_items
InitDiff ==
    /\ file = AbsentFile
    /\ last = [op |-> "request", error |-> NoError]
    /\ \E old_items \in DiffLists, new_items \in DiffLists :
           ret = [old_items |-> old_items, new_items |-> new_items]

DiffNewItemsOp ==
    /\ last.op = "request"
    /\ last' = [op |-> "diff_new_items", error |-> NoError]
    /\ ret' = [old_items |-> ret.old_items, new_items |-> ret.new_items,
               new_only_items |-> diff_new_items(ret.old_items, ret.new_items)]
    /\ UNCHANGED file

NextDiff == DiffNewItemsOp

SpecDiff == InitDiff /\ [][NextDiff]_vars

\* largest batch handed to one of two save_many calls
MaxCompose == 2

\* items of two batches: two item_ids, each with two values (for item_id 1
\* the same instant written as a datetime and as a text with an offset), a
\* published text that does not parse, and an item without item_id
ComposeItems ==
    { MkItem(1, "First Video", Dt(3600, 0), "absent"),
      MkItem(1, "Updated Article", IsoStr(7200, 0, 0, "+01:00"), "absent"),
      MkItem(2, "First Video", Dt(3600, 0), "absent"),
      MkItem(2, "Updated Article", Dt(0, 500000), "true"),
      MkItem(2, "First Video", BadStr, "absent"),
      MkItem(NoId, "Updated Article", BadStr, "absent") }

ComposeBatches == SeqsUpTo(ComposeItems, MaxCompose)

\* the store before the two calls: no file, or a file with a third item
ComposeStores ==
    { AbsentFile,
      ItemsFile(<<MkItem(3, "First Video", IsoStr(3600, 0, 0, "Z"), "absent")>>) }

\* store.save_many(X); store.save_many(Y): an exception of the first call
\* ends the sequence
save_many_twice(f, X, Y) ==
    LET first == save_many(f, X)
    IN  IF first.error # NoError THEN first ELSE save_many(first.file, Y)

\* a store and two batches about to be saved
InitCompose ==
    /\ file \in ComposeStores
    /\ last = [op |-> "request", error |-> NoError]
    /\ \E A \in ComposeBatches, B \in ComposeBatches : ret = [A |-> A, B |-> B]

\* save_many(A) then save_many(B) on the store, next to what the other order
\* and the single call with A followed by B give on the same store
SaveBothOp ==
    /\ last.op = "request"
    /\ LET a_then_b == save_many_twice(file, ret.A, ret.B)
       IN  /\ file' = a_then_b.file
           /\ last' = [op |-> "save_many", error |-> a_then_b.error]
           /\ ret' = [A |-> ret.A, B |-> ret.B, before |-> file,
                      b_then_a |-> save_many_twice(file, ret.B, ret.A),
                      joint |-> save_many(file, ret.A \o ret.B)]

NextCompose == SaveBothOp

SpecCompose == InitCompose /\ [][NextCompose]_vars

\* Two callers of save_many on one store path.  save_many reads the file
\* (lines 116-125), then merges, sorts and rewrites it (lines 127-192); the
\* steps of two calls can alternate.

\* largest batch of a writer
MaxWriterBatch == 1

\* largest number of save_many calls of one writer
MaxCalls == 2

Writers == {1, 2}

WriterItems ==
    { MkItem(1, "First Video", Dt(3600, 0), "absent"),
      MkItem(2, "First Video", Dt(3600, 0), "absent"),
      MkItem(3, "Updated Article", Dt(0, 500000), "absent"),
      MkItem(NoId, "Updated Article", Dt(3600, 0), "absent") }

WriterBatches == SeqsUpTo(WriterItems, MaxWriterBatch)

\* mutant: the stored items are not carried over
save_many_load_nothing(f) == <<>>

\* save_many lines 116-125: the stored items keyed by item_id, nothing when
\* the file does not load
save_many_load(f) ==
    LET loaded == load_all(f)
    IN  IF loaded.error = NoError THEN index_existing(loaded.items, <<>>) ELSE <<>>

\* save_many lines 127-192: merge the batch into what was read, sort, write
save_many_write(f, existing_items, items) ==
    write_sorted(f, merge_items(items, existing_items))

\* no call in progress; saved: the item_ids passed to the calls that have
\* returned; interleaved: some call has read the file while another call
\* was between its read and its write
InitWriters ==
    /\ file = AbsentFile
    /\ last = [op |-> "init", error |-> NoError]
    /\ ret = [pc |-> [w \in Writers |-> "idle"],
              items |-> [w \in Writers |-> <<>>],
              existing_items |-> [w \in Writers |-> <<>>],
              calls |-> [w \in Writers |-> 0],
              saved |-> {},
              interleaved |-> FALSE]

\* a writer enters save_many(items) and reads the file
SaveManyLoadOp ==
    \E w \in Writers, items \in WriterBatches :
        /\ ret.pc[w] = "idle"
        /\ ret.calls[w] < MaxCalls
        /\ last' = [op |-> "save_many_load", error |-> NoError]
        /\ ret' = [ret EXCEPT !.pc[w] = "loaded",
                              !.items[w] = items,
                              !.existing_items[w] = save_many_load(file),
                              !.calls[w] = @ + 1,
                              !.interleaved =
                                  @ \/ \E v \in Writers \ {w} : ret.pc[v] = "loaded"]
        /\ UNCHANGED file

\* a writer merges, rewrites the file and returns
SaveManyWriteOp ==
    \E w \in Writers :
        /\ ret.pc[w] = "loaded"
        /\ LET r == save_many_write(file, ret.existing_items[w], ret.items[w])
           IN  /\ file' = r.file
               /\ last' = [op |-> "save_many_write", error |-> r.error]
               /\ ret' = [ret EXCEPT !.pc[w] = "idle",
                                     !.items[w] = <<>>,
                                     !.existing_items[w] = <<>>,
                                     !.saved = IF r.error = NoError
                                               THEN @ \cup ({ret.items[w][i].item_id :
                                                          i \in 1..Len(ret.items[w])}
                                                        \ {NoId})
                                               ELSE @]

NextWriters ==
    \/ SaveManyLoadOp
    \/ SaveManyWriteOp

SpecWriters == InitWriters /\ [][NextWriters]_vars

\* a RecommendRequest(items, limit) about to be handed to a recommender
InitRec ==
    /\ file = AbsentFile
    /\ last = [op |-> "request", error |-> NoError]
    /\ \E items \in Requests, limit \in Limits :
           ret = [req_items |-> items, limit |-> limit]

\* LatestRecommender().recommend(req)
LatestRecommendOp ==
    /\ last.op = "request"
    /\ LET r == LatestRecommender_recommend(ret.req_items, ret.limit)
       IN  /\ last' = [op |-> "latest", error |-> r.error]
           /\ ret' = [req_items |-> ret.req_items, limit |-> ret.limit,
                      items |-> r.items, meta |-> r.meta]
           /\ UNCHANGED file

\* KeywordFromSeenRecommender().recommend(req)
KeywordRecommendOp ==
    /\ last.op = "request"
    /\ LET r == KeywordFromSeenRecommender_recommend(ret.req_items, ret.limit)
       IN  /\ last' = [op |-> "keyword_from_seen", error |-> r.error]
           /\ ret' = [req_items |-> ret.req_items, limit |-> ret.limit,
                      items |-> r.items, meta |-> r.meta]
           /\ UNCHANGED file

NextRec ==
    \/ LatestRecommendOp
    \/ KeywordRecommendOp

SpecRec == InitRec /\ [][NextRec]_vars

-----------------------------------------------------------------------------
(* The Markdown renderer (app/recommend.py).  A rendered string is kept as  *)
(* the sequence of its pieces between "\n" (what str.split("\n") returns):  *)
(* "" is <<Blank>>, and a string that ends with "\n" has Blank as its last  *)
(* piece.  A line is its markup kind, its label and its text:               *)
(* "_Strategy_: latest" is a "meta" line with label "Strategy" and text     *)
(* "latest", "- Source: rss" is a "bullet" line, "## 1. Title" an "h2"      *)
(* line; a "code" line is a bullet whose text stands between backquotes.    *)
(* No title, keyword or meta value holds a "\n".                            *)

\* largest number of items of a rendered result
MaxRenderItems == 2

\* largest number of sections of a multi-section report
MaxSections == 2

Line(kind, label, text) == [kind |-> kind, label |-> label, text |-> text]

Blank == Line("blank", "", "")

\* an Item with the fields the renderer reads
MkRenderItem(id, source_type, source_url, title, link, published) ==
    [item_id |-> id, source_type |-> source_type, source_url |-> source_url,
     title |-> title, link |-> link, published |-> published]

\* "%02d" and "%06d" as isoformat prints them
pad2(n) == IF n < 10 THEN "0" \o ToString(n) ELSE ToString(n)

pad6(n) ==
    IF n < 10 THEN "00000" \o ToString(n)
    ELSE IF n < 100 THEN "0000" \o ToString(n)
    ELSE IF n < 1000 THEN "000" \o ToString(n)
    ELSE IF n < 10000 THEN "00" \o ToString(n)
    ELSE IF n < 100000 THEN "0" \o ToString(n)
    ELSE ToString(n)

\* the characters of an ISO text of the first day of the epoch
iso_text(s) ==
    "1970-01-01T" \o pad2(s.sec \div 3600) \o ":" \o pad2((s.sec % 3600) \div 60)
        \o ":" \o pad2(s.sec % 60)
        \o (IF s.nd = 6 THEN "." \o pad6(s.us) ELSE "")
        \o s.off

\* ", ".join(strs)
RECURSIVE join(_, _)
join(sep, strs) ==
    IF strs = <<>> THEN ""
    ELSE IF Len(strs) = 1 THEN strs[1]
    ELSE strs[1] \o sep \o join(sep, Tail(strs))

\* "\n".join(lines) as the pieces of the joined string
join_lines(lines) == IF lines = <<>> THEN <<Blank>> ELSE lines

\* text.endswith("\n" * n)
ends_with_newlines(text, n) ==
    /\ Len(text) > n
    /\ \A i \in (Len(text) - n + 1)..Len(text) : text[i] = Blank

\* dict.get(key): "None" for a missing key
meta_get(meta, key) == IF key \in DOMAIN meta THEN meta[key] ELSE "None"

\* mutant: the line is written for every strategy
top_keywords_lines_any_strategy(meta) ==
    IF "top_keywords" \in DOMAIN meta
    THEN IF meta.top_keywords # <<>>
         THEN LET keyword_strs ==
                      [i \in 1..Len(meta.top_keywords) |->
                          meta.top_keywords[i][1] \o "("
                              \o ToString(meta.top_keywords[i][2]) \o ")"]
              IN  <<Line("meta", "Top keywords", join(", ", keyword_strs))>>
         ELSE <<Line("meta", "Top keywords", "(none)")>>
    ELSE <<>>

\* render_recommendation_markdown, the top_keywords part of the meta block
top_keywords_lines(meta) ==
    IF meta_get(meta, "strategy") = "keyword_from_seen" /\ "top_keywords" \in DOMAIN meta
    THEN IF meta.top_keywords # <<>>
         THEN LET keyword_strs ==
                      [i \in 1..Len(meta.top_keywords) |->
                          meta.top_keywords[i][1] \o "("
                              \o ToString(meta.top_keywords[i][2]) \o ")"]
              IN  <<Line("meta", "Top keywords", join(", ", keyword_strs))>>
         ELSE <<Line("meta", "Top keywords", "(none)")>>
    ELSE <<>>

\* render_recommendation_markdown, part 1: the meta block
meta_lines(meta) ==
    IF DOMAIN meta = {} THEN <<>>
    ELSE (IF "strategy" \in DOMAIN meta
          THEN <<Line("meta", "Strategy", meta.strategy)>> ELSE <<>>)
         \o (IF "limit" \in DOMAIN meta
             THEN <<Line("meta", "Limit", ToString(meta.limit))>> ELSE <<>>)
         \o top_keywords_lines(meta)
         \o (IF \/ "strategy" \in DOMAIN meta
                \/ "limit" \in DOMAIN meta
                \/ (/\ meta_get(meta, "strategy") = "keyword_from_seen"
                    /\ "top_keywords" \in DOMAIN meta)
             THEN <<Blank>> ELSE <<>>)

\* render_recommendation_markdown, part 2: the section of the index-th item
item_section(index, item) ==
    << Line("h2", "", ToString(index) \o ". " \o item.title),
       Line("code", "ID", ToString(item.item_id)),
       Line("bullet", "Source", item.source_type),
       Line("bullet", "Channel", item.source_url),
       Line("bullet", "Published", iso_text(dt_to_str(item.published))),
       Line("bullet", "Link", item.link),
       Blank >>

RECURSIVE items_sections(_, _)
items_sections(items, index) ==
    IF index > Len(items) THEN <<>>
    ELSE item_section(index, items[index]) \o items_sections(items, index + 1)

render_recommendation_markdown(result) ==
    LET lines == meta_lines(result.meta) \o items_sections(result.items, 1)
        joined == join_lines(lines)
    IN  IF lines = <<>> THEN <<Blank>>
        ELSE IF ends_with_newlines(joined, 2) THEN joined
        ELSE joined \o <<Blank>>

\* mutant: a section with an empty body is left out, heading included
RECURSIVE sections_lines_skip_empty(_)
sections_lines_skip_empty(sections) ==
    IF sections = <<>> THEN <<>>
    ELSE LET section_title == sections[1][1]
             section_body == render_recommendation_markdown(sections[1][2])
         IN  (IF section_body # <<Blank>>
              THEN <<Line("h2", "", section_title), Blank>> \o section_body \o <<Blank>>
              ELSE <<>>)
             \o sections_lines_skip_empty(Tail(sections))

\* render_multi_recommendation_markdown, the loop over the sections
RECURSIVE sections_lines(_)
sections_lines(sections) ==
    IF sections = <<>> THEN <<>>
    ELSE LET section_title == sections[1][1]
             section_body == render_recommendation_markdown(sections[1][2])
         IN  <<Line("h2", "", section_title), Blank>>
             \o (IF section_body # <<Blank>> THEN section_body ELSE <<>>)
             \o <<Blank>>
             \o sections_lines(Tail(sections))

render_multi_recommendation_markdown(sections) ==
    LET lines == <<Line("h1", "", "Recommended Items"), Blank>> \o sections_lines(sections)
        popped == IF lines[Len(lines)] = Blank THEN SubSeq(lines, 1, Len(lines) - 1)
                  ELSE lines
        joined == join_lines(popped)
    IN  IF ends_with_newlines(joined, 1) THEN joined ELSE joined \o <<Blank>>

\* the items of the renderer tests: whole seconds, a sub-second part, and a
\* published time with an offset of one hour
RenderItems ==
    { MkRenderItem(1, "youtube", "https://youtube.com/channel/testchannel",
                   "Test Video Title", "https://youtube.com/watch?v=test123", Dt(3600, 0)),
      MkRenderItem(2, "youtube", "https://youtube.com/channel/testchannel",
                   "Second Video", "https://youtube.com/watch?v=second", Dt(0, 500000)),
      MkRenderItem(3, "rss", "https://example.com/feed",
                   "First Video", "https://example.com/first", DtTz(7200, 0, "+01:00")) }

EmptyMeta == [k \in {} |-> "None"]

\* the meta dictionaries of the renderer tests
Metas ==
    { EmptyMeta,
      [extra |-> "ignored"],
      [strategy |-> "latest"],
      [limit |-> 5],
      [strategy |-> "latest", limit |-> 5, extra |-> "ignored"],
      [strategy |-> "latest", limit |-> 5, top_keywords |-> << <<"python", 2>> >>],
      [limit |-> 5, top_keywords |-> << <<"python", 2>> >>],
      [strategy |-> "keyword_from_seen", limit |-> 5],
      [strategy |-> "keyword_from_seen", limit |-> 5, top_keywords |-> <<>>],
      [strategy |-> "keyword_from_seen", top_keywords |-> << <<"python", 2>> >>],
      [strategy |-> "keyword_from_seen", limit |-> 5,
       top_keywords |-> << <<"python", 2>>, <<"programming", 1>>, <<"tutorial", 1>> >>] }

RecommendResult(items, meta) == [items |-> items, meta |-> meta]

RenderResults ==
    { RecommendResult(items, meta) :
        items \in SeqsUpTo(RenderItems, MaxRenderItems), meta \in Metas }

\* the results of the sections of the multi-section tests: nothing at all,
\* meta only, items only, items and meta
SectionResults ==
    LET item1 == CHOOSE item \in RenderItems : item.item_id = 1
        item3 == CHOOSE item \in RenderItems : item.item_id = 3
    IN  { RecommendResult(<<>>, EmptyMeta),
          RecommendResult(<<>>, [strategy |-> "latest", limit |-> 5]),
          RecommendResult(<<>>, [strategy |-> "keyword_from_seen", limit |-> 5,
                                 top_keywords |-> <<>>]),
          RecommendResult(<<item3>>, EmptyMeta),
          RecommendResult(<<item1>>, [strategy |-> "latest", limit |-> 5]),
          RecommendResult(<<item3, item1>>,
                          [strategy |-> "keyword_from_seen", limit |-> 5,
                           top_keywords |-> << <<"python", 2>>, <<"programming", 1>> >>]) }

SectionTitles == {"Latest", "Keyword from Seen"}

SectionLists == SeqsUpTo(SectionTitles \X SectionResults, MaxSections)

\* a result, or a list of sections, about to be rendered
InitRender ==
    /\ file = AbsentFile
    /\ last = [op |-> "request", error |-> NoError]
    /\ \/ \E result \in RenderResults : ret = [kind |-> "single", result |-> result]
       \/ \E sections \in SectionLists : ret = [kind |-> "multi", sections |-> sections]

RenderOp ==
    /\ last.op = "request"
    /\ ret.kind = "single"
    /\ last' = [op |-> "render_recommendation_markdown", error |-> NoError]
    /\ ret' = [kind |-> "single", result |-> ret.result,
               text |-> render_recommendation_markdown(ret.result)]
    /\ UNCHANGED file

RenderMultiOp ==
    /\ last.op = "request"
    /\ ret.kind = "multi"
    /\ last' = [op |-> "render_multi_recommendation_markdown", error |-> NoError]
    /\ ret' = [kind |-> "multi", sections |-> ret.sections,
               text |-> render_multi_recommendation_markdown(ret.sections)]
    /\ UNCHANGED file

NextRender ==
    \/ RenderOp
    \/ RenderMultiOp

SpecRender == InitRender /\ [][NextRender]_vars


-----------------------------------------------------------------------------
(* Vocabulary of the properties *)

\* the operations of the program that may write the store
StoreOps ==
    {"save_many", "fetch_youtube_new_items", "fetch_and_persist_youtube_items",
     "modify"}

\* The properties of save_many below depend on the file only.  Every store
\* content that is reachable occurs in a state right after Init, after a
\* save_many that returned, or after a foreign write, so they are evaluated
\* in those states.
AtStoreContents ==
    last.op \in {"init", "save_many", "write_text"} /\ last.error = NoError

Loadable(f) == load_all(f).error = NoError

\* the item_ids load_all returns
LoadedIds(f) ==
    LET loaded == load_all(f)
    IN  {loaded.items[i].item_id : i \in 1..Len(loaded.items)} \ {NoId}

\* the elements of the file that carry a given item_id
StoredItems(f, id) ==
    {f.items[i] : i \in {j \in 1..Len(f.items) : f.items[j].item_id = id}}

HasId(item) == item.item_id # NoId

IdsOf(items) == {items[i].item_id : i \in 1..Len(items)} \ {NoId}

\* the instant a published value of a batch item denotes
Instant(p) == IF p.tag = "datetime" THEN p ELSE str_to_dt(p)

\* the last item of a batch that carries a given item_id
LastWithId(items, id) ==
    items[CHOOSE i \in 1..Len(items) :
              /\ items[i].item_id = id
              /\ \A j \in (i + 1)..Len(items) : items[j].item_id # id]

\* published descending, item_id ascending
CanonicalOrder(items) ==
    \A i \in 1..(Len(items) - 1) :
        \/ ~dt_le(items[i].published, items[i + 1].published)
        \/ /\ items[i].published = items[i + 1].published
           /\ items[i].item_id <= items[i + 1].item_id

-----------------------------------------------------------------------------
(* C1 *)

\* C1: for the store contents of every reachable state and every batch X,
\* save_many(X) applied to the result of save_many(X) leaves the file exactly
\* as the first save_many(X) left it (same items, same values, same order).
C1_IdempotentMerge ==
    AtStoreContents =>
        \A X \in Batches :
            LET once == save_many(file, X)
            IN  save_many(once.file, X).file = once.file

\* a store of two items that a two-item batch with item_ids reproduces
C1_Witness ==
    /\ last.op = "save_many"
    /\ last.error = NoError
    /\ Len(file.items) = 2
    /\ \E X \in Batches :
           /\ Len(X) = 2
           /\ HasId(X[1]) /\ HasId(X[2]) /\ X[1].item_id # X[2].item_id
           /\ save_many(AbsentFile, X).file = file
           /\ save_many(file, X).file = file

-----------------------------------------------------------------------------
(* C2 *)

-----------------------------------------------------------------------------
(* C3 *)

-----------------------------------------------------------------------------
(* C4 *)

\* every item of the batch that has an item_id is in the written file
AllMerged(X, f) == f.kind = "items" /\ IdsOf(X) \subseteq IdsOf(f.items)

-----------------------------------------------------------------------------
(* C5 *)

\* C5: no step of save_many, fetch_youtube_new_items,
\* fetch_and_persist_youtube_items or modify removes an item_id that load_all
\* returned before the step.
C5_NoDeletion ==
    [][last'.op \in StoreOps => LoadedIds(file) \subseteq LoadedIds(file')]_vars

\* a fetch has just been persisted into a store that holds three items, more
\* than one feed can bring
C5_Witness ==
    /\ last.op = "fetch_and_persist_youtube_items"
    /\ last.error = NoError
    /\ LoadedIds(file) = ItemIds
    /\ MaxBatch < Cardinality(ItemIds)

-----------------------------------------------------------------------------
(* C6 *)

\* C6: in every reachable state the file holds at most one element per
\* item_id.
C6_UniqueItemIds ==
    \A i, j \in 1..Len(file.items) :
        (HasId(file.items[i]) /\ file.items[i].item_id = file.items[j].item_id)
            => i = j

\* a batch that names one item_id twice, which is already stored, has been
\* saved: the store still holds the two items it held
C6_Witness ==
    /\ last.op = "save_many"
    /\ last.error = NoError
    /\ Len(file.items) = 2
    /\ \E X \in Batches :
           /\ Len(X) = 2
           /\ X[1] # X[2]
           /\ HasId(X[1]) /\ X[1].item_id = X[2].item_id
           /\ X[1].item_id \in IdsOf(file.items)
           /\ save_many(file, X).file = file

-----------------------------------------------------------------------------
(* C7 *)

NotJsonItems(f) == f.kind \in {"invalid_json", "no_items_key", "items_not_list"}

HasNonDict(f) == \E i \in 1..Len(f.items) : f.items[i].type # "dict"

\* an element whose published text fromisoformat rejects
HasUnparsable(f) ==
    \E i \in 1..Len(f.items) :
        f.items[i].type = "dict" /\ ~fromisoformat_ok(f.items[i].published)

\* an element whose published text is not empty and fromisoformat rejects
HasUnparsableNonEmpty(f) ==
    \E i \in 1..Len(f.items) :
        /\ f.items[i].type = "dict"
        /\ truthy(f.items[i].published)
        /\ ~fromisoformat_ok(f.items[i].published)

\* C7 as claimed: load_all fails, returning nothing, when the file is not
\* JSON, has no items list, holds an element that is not an object or an
\* element whose published value cannot be parsed; the timestamp failure is
\* reported differently from the malformed-item failure.
C7_AsClaimed ==
    last.op = "load_all" =>
        /\ (NotJsonItems(file) \/ HasNonDict(file) \/ HasUnparsable(file))
               => (last.error # NoError /\ ret = <<>>)
        /\ (HasUnparsable(file) /\ ~HasNonDict(file))
               => last.error = "Invalid published timestamp"
        /\ (HasNonDict(file) /\ ~HasUnparsable(file))
               => last.error = "Invalid item: item must be a dictionary"

\* C7 amended: load_all fails, returning nothing, when the file is not JSON,
\* has no items list, holds an element that is not an object or an element
\* whose non-empty published text cannot be parsed (an empty published is
\* returned as it is, without error); the timestamp failure is reported
\* differently from the malformed-item failure; any other file loads whole.
C7_LoadAllFailsWhole ==
    last.op = "load_all" =>
        /\ (NotJsonItems(file) \/ HasNonDict(file) \/ HasUnparsableNonEmpty(file))
               => (last.error # NoError /\ ret = <<>>)
        /\ (HasUnparsableNonEmpty(file) /\ ~HasNonDict(file))
               => last.error = "Invalid published timestamp"
        /\ (HasNonDict(file) /\ ~HasUnparsableNonEmpty(file))
               => last.error = "Invalid item: item must be a dictionary"
        /\ ~(NotJsonItems(file) \/ HasNonDict(file) \/ HasUnparsableNonEmpty(file))
               => (last.error = NoError /\ Len(ret) = Len(file.items))

\* load_all has failed on a file whose first element is valid and whose
\* second has an unparsable timestamp: nothing is returned
C7_Witness ==
    /\ last.op = "load_all"
    /\ last.error = "Invalid published timestamp"
    /\ ret = <<>>
    /\ Len(file.items) = 2
    /\ fromisoformat_ok(file.items[1].published)

-----------------------------------------------------------------------------
(* C8 *)

\* C8: a load_all step on a missing file returns the empty sequence, raises
\* nothing and leaves the file missing (so that any repetition does the same).
C8_LoadMissingFile ==
    [][(last'.op = "load_all" /\ file.kind = "absent") =>
          (ret' = <<>> /\ last'.error = NoError /\ file'.kind = "absent")]_vars

\* load_all has been called twice in a row on a missing file
C8_Witness ==
    /\ last.op = "load_all"
    /\ last.error = NoError
    /\ file.kind = "absent"
    /\ ret = <<>>

-----------------------------------------------------------------------------
(* C9 *)

\* C9: for every reachable store and every batch X, save_many(X) raises and
\* writes exactly what save_many does on X without its items that have no
\* item_id.
C9_SkipsItemsWithoutId ==
    AtStoreContents =>
        \A X \in Batches :
            save_many(file, X) = save_many(file, SelectSeq(X, HasId))

\* a batch of an item without item_id (whose published text would not even
\* parse) and an item with one has been saved: only the second is stored
C9_Witness ==
    /\ last.op = "save_many"
    /\ last.error = NoError
    /\ Len(file.items) = 1
    /\ \E X \in Batches :
           /\ Len(X) = 2
           /\ ~HasId(X[1]) /\ X[1].published = BadStr
           /\ HasId(X[2])
           /\ save_many(AbsentFile, X).file = file

-----------------------------------------------------------------------------
(* C10 *)

\* a dictionary in serialized form: the canonical "Z" text of an instant
WellFormedDict(d) ==
    /\ d.published.tag = "str"
    /\ d.published.off = "Z"
    /\ d.published.nd = (IF d.published.us = 0 THEN 0 ELSE 6)

\* C10 as claimed: from_dict(to_dict(item)) equals item; and for every
\* well-formed dictionary d, to_dict(from_dict(d)) equals d, with seen false
\* when d has no seen key.
C10_AsClaimed ==
    /\ last.op = "to_dict" => (last.error = NoError /\ item_eq(ret[2], ret[1]))
    /\ (last.op = "from_dict" /\ WellFormedDict(ret[1])) =>
           /\ last.error = NoError
           /\ ret[2] = IF ret[1].seen = "absent"
                        THEN [ret[1] EXCEPT !.seen = "false"] ELSE ret[1]

-----------------------------------------------------------------------------
(* Vocabulary of the recommender properties *)

\* the request of the last recommender call
Candidates == ret.req_items

\* an item is unseen unless it was marked seen (seen defaults to false)
Unseen(item) == item.seen # "true"

UnseenCount(items) == Cardinality({ i \in 1..Len(items) : Unseen(items[i]) })

\* every request item carries the seen attribute
AllHaveSeen(items) == \A i \in 1..Len(items) : has_seen(items[i])

\* the elements of a, counted, are among those of b
SubBag(a, b) ==
    \A x \in { a[i] : i \in 1..Len(a) } :
        Cardinality({ i \in 1..Len(a) : a[i] = x })
            <= Cardinality({ i \in 1..Len(b) : b[i] = x })

Min(a, b) == IF a < b THEN a ELSE b

-----------------------------------------------------------------------------
(* C11 *)

\* the selection and metadata rule of LatestRecommender, for a call that
\* returned
LatestSelection ==
    /\ (UnseenCount(Candidates) > 0 =>
           /\ \A i \in 1..Len(ret.items) : Unseen(ret.items[i])
           /\ ret.meta.filtered = TRUE)
    /\ (UnseenCount(Candidates) = 0 =>
           /\ SubBag(ret.items, Candidates)
           /\ Len(ret.items) = Min(ret.limit, Len(Candidates))
           /\ ret.meta.filtered = FALSE)
    /\ ret.meta.total_items = Len(Candidates)
    /\ ret.meta.unseen_items = UnseenCount(Candidates)

\* C11 as claimed: LatestRecommender.recommend returns, for every candidate
\* list, a result with only unseen items and meta.filtered true when some
\* candidate is unseen, the full candidate list and meta.filtered false
\* otherwise, and meta.total_items and meta.unseen_items count the candidates
\* and the unseen candidates.
C11_AsClaimed ==
    last.op = "latest" => (last.error = NoError /\ LatestSelection)

\* the same rule on the requests whose items all carry the seen attribute
C11_OnItemsWithSeen ==
    (last.op = "latest" /\ AllHaveSeen(Candidates)) =>
        (last.error = NoError /\ LatestSelection)

-----------------------------------------------------------------------------
(* C12 *)

\* a is ranked strictly before b by (published descending, item_id ascending)
RanksBefore(a, b) ==
    \/ b.published.sec < a.published.sec
    \/ (b.published.sec = a.published.sec /\ b.published.us < a.published.us)
    \/ (b.published = a.published /\ a.item_id < b.item_id)

\* every adjacent pair: later published first, or the same published and a
\* smaller-or-equal item_id first
LatestOrdered(items) ==
    \A i \in 1..(Len(items) - 1) : ~RanksBefore(items[i + 1], items[i])

\* C12 as claimed: LatestRecommender.recommend returns a result in which
\* every adjacent pair is ordered by published descending, then item_id
\* ascending.
C12_AsClaimed ==
    last.op = "latest" => (last.error = NoError /\ LatestOrdered(ret.items))

\* the order of the results of the calls that returned
C12_OnItemsWithSeen ==
    (last.op = "latest" /\ AllHaveSeen(Candidates)) =>
        (last.error = NoError /\ LatestOrdered(ret.items))

-----------------------------------------------------------------------------
(* C13 *)

\* the candidate selection: the unseen candidates, or all when none is unseen
Selected(items) ==
    IF UnseenCount(items) > 0 THEN SelectSeq(items, Unseen) ELSE items

Count(x, s) == Cardinality({ i \in 1..Len(s) : s[i] = x })

\* result is made of the first Min(limit, Len(sel)) items of sel in rank
\* order: it has that length, its items are items of sel, and no item of sel
\* left out is ranked before an item of the result
FirstOfRanked(result, sel, limit, before(_, _)) ==
    /\ Len(result) = Min(limit, Len(sel))
    /\ Len(result) <= limit
    /\ SubBag(result, sel)
    /\ \A j \in 1..Len(sel) :
           Count(sel[j], result) < Count(sel[j], sel) =>
               \A i \in 1..Len(result) : ~before(sel[j], result[i])

\* C13 as claimed: the result of LatestRecommender.recommend is the first
\* limit items of the ordered candidate selection; its length is
\* min(limit, number of selected candidates), never more than limit, and a
\* limit above the number of candidates returns all of them without error.
C13_AsClaimed ==
    last.op = "latest" =>
        /\ last.error = NoError
        /\ FirstOfRanked(ret.items, Selected(Candidates), ret.limit, RanksBefore)

\* the truncation of the calls that returned
C13_OnItemsWithSeen ==
    (last.op = "latest" /\ AllHaveSeen(Candidates)) =>
        /\ last.error = NoError
        /\ FirstOfRanked(ret.items, Selected(Candidates), ret.limit, RanksBefore)

-----------------------------------------------------------------------------
(* C14 *)

\* the call of the keyword recommender returned
KeywordReturned == last.op = "keyword_from_seen" /\ last.error = NoError

\* the keyword table of the last call, as meta.top_keywords reports it
TopKeywords == { ret.meta.top_keywords[i][1] : i \in 1..Len(ret.meta.top_keywords) }

WeightOf(k) ==
    LET i == CHOOSE i \in 1..Len(ret.meta.top_keywords) : ret.meta.top_keywords[i][1] = k
    IN  ret.meta.top_keywords[i][2]

\* the characters the claimed tokenizer keeps: letters, digits, '#' and '+'
TokenChars == AlnumChars \cup {"#", "+"}

\* the claimed tokenizer: split on every other character, lower-case, drop
\* empty tokens; the set of tokens of a title
RECURSIVE ClaimedSplit(_, _, _)
ClaimedSplit(title, i, cur) ==
    IF i > Len(title) THEN {cur}
    ELSE IF title[i] \in TokenChars
         THEN ClaimedSplit(title, i + 1, Append(cur, lower(title[i])))
         ELSE {cur} \cup ClaimedSplit(title, i + 1, <<>>)

ClaimedTokens(title) == ClaimedSplit(title, 1, <<>>) \ {<<>>}

SeenIndexes(items) == { i \in 1..Len(items) : items[i].seen = "true" }

\* C14 as claimed: the keywords of the table are the tokens of the seen
\* titles as split on every character that is not a letter, a digit, '#' or
\* '+', lower-cased, empty tokens dropped; a seen title "C++ Go" gives the
\* keyword "c++" and not the keyword "c".
C14_AsClaimed ==
    KeywordReturned =>
        TopKeywords = UNION { ClaimedTokens(Candidates[i].title) : i \in SeenIndexes(Candidates) }

-----------------------------------------------------------------------------
(* C15 *)

\* the tokens of a title
TokenSet(title) == { tokenize_title(title)[i] : i \in 1..Len(tokenize_title(title)) }

\* C15 as claimed: the weight of every keyword of the table is the number of
\* seen items whose title holds that token at least once; unseen items add
\* nothing.
C15_AsClaimed ==
    KeywordReturned =>
        \A k \in TopKeywords :
            WeightOf(k) = Cardinality({ i \in SeenIndexes(Candidates) :
                                          k \in TokenSet(Candidates[i].title) })

-----------------------------------------------------------------------------
(* C16 *)

\* the sum of the table weights of a set of keywords
RECURSIVE SumWeights(_)
SumWeights(K) ==
    IF K = {} THEN 0
    ELSE LET k == CHOOSE k \in K : TRUE
         IN  WeightOf(k) + SumWeights(K \ {k})

\* the claimed score of a title: the table weights of its distinct tokens
\* that are keywords
ClaimedScore(title) == SumWeights(TokenSet(title) \cap TopKeywords)

\* C16 as claimed: the score the recommender gives a candidate is the sum of
\* the table weights over the distinct tokens of its title that are in the
\* table, so a token repeated in the title counts once.
C16_AsClaimed ==
    (KeywordReturned /\ TopKeywords # {}) =>
        \A i \in 1..Len(Candidates) :
            score_tokens(tokenize_title(Candidates[i].title), keyword_table(Candidates))
                = ClaimedScore(Candidates[i].title)

-----------------------------------------------------------------------------
(* C17 *)

\* a is ranked strictly before b by (score descending, published descending,
\* item_id ascending), with the score of C16
ScoreRanksBefore(a, b) ==
    \/ ClaimedScore(a.title) > ClaimedScore(b.title)
    \/ (ClaimedScore(a.title) = ClaimedScore(b.title) /\ RanksBefore(a, b))

\* C17 as claimed: in the result of recommend_keyword_from_seen every
\* adjacent pair is ordered by score descending, then published descending,
\* then item_id ascending.
C17_AsClaimed ==
    KeywordReturned =>
        \A i \in 1..(Len(ret.items) - 1) : ~ScoreRanksBefore(ret.items[i + 1], ret.items[i])

-----------------------------------------------------------------------------
(* C18 *)

\* no candidate was marked seen
NoSeenItems == \A i \in 1..Len(Candidates) : Unseen(Candidates[i])

\* C18 as claimed: when every candidate is unseen (the empty list included),
\* KeywordFromSeenRecommender.recommend returns an empty ranked list and an
\* empty meta.top_keywords.
C18_AsClaimed ==
    (last.op = "keyword_from_seen" /\ NoSeenItems) =>
        /\ last.error = NoError
        /\ ret.items = <<>>
        /\ ret.meta.top_keywords = <<>>

\* the same on the requests whose items all carry seen=False
C18_OnItemsWithSeen ==
    (last.op = "keyword_from_seen" /\ NoSeenItems /\ AllHaveSeen(Candidates)) =>
        /\ last.error = NoError
        /\ ret.items = <<>>
        /\ ret.meta.top_keywords = <<>>

-----------------------------------------------------------------------------
(* C19 *)

\* C19 as claimed: when seen items exist and some candidate is unseen, only
\* unseen items are in the result; when seen items exist and no candidate is
\* unseen, all items are candidates and are returned (up to limit) instead
\* of an empty list.
C19_AsClaimed ==
    (KeywordReturned /\ SeenIndexes(Candidates) # {}) =>
        /\ (UnseenCount(Candidates) > 0 =>
               \A i \in 1..Len(ret.items) : Unseen(ret.items[i]))
        /\ (UnseenCount(Candidates) = 0 =>
               /\ SubBag(ret.items, Candidates)
               /\ Len(ret.items) = Min(ret.limit, Len(Candidates)))

-----------------------------------------------------------------------------
(* C20 *)

\* C20 as claimed: whenever a seen item exists every selected candidate is
\* scored and included, those with score 0 too: the result has exactly
\* min(limit, number of selected candidates) items, taken from the selected
\* candidates, and no zero-score item stands before a positive-score item.
C20_AsClaimed ==
    (KeywordReturned /\ SeenIndexes(Candidates) # {}) =>
        /\ Len(ret.items) = Min(ret.limit, Len(Selected(Candidates)))
        /\ SubBag(ret.items, Selected(Candidates))
        /\ \A i, j \in 1..Len(ret.items) :
               i < j => ~(ClaimedScore(ret.items[i].title) = 0
                          /\ ClaimedScore(ret.items[j].title) > 0)

\* the selection rule of C19 on the calls with a non-empty keyword table
C19_WithKeywords ==
    (KeywordReturned /\ TopKeywords # {}) =>
        /\ (UnseenCount(Candidates) > 0 =>
               \A i \in 1..Len(ret.items) : Unseen(ret.items[i]))
        /\ (UnseenCount(Candidates) = 0 =>
               /\ SubBag(ret.items, Candidates)
               /\ Len(ret.items) = Min(ret.limit, Len(Candidates)))

\* the inclusion rule of C20 on the calls with a non-empty keyword table
C20_WithKeywords ==
    (KeywordReturned /\ TopKeywords # {}) =>
        /\ Len(ret.items) = Min(ret.limit, Len(Selected(Candidates)))
        /\ SubBag(ret.items, Selected(Candidates))
        /\ \A i, j \in 1..Len(ret.items) :
               i < j => ~(ClaimedScore(ret.items[i].title) = 0
                          /\ ClaimedScore(ret.items[j].title) > 0)

-----------------------------------------------------------------------------
(* C21 *)

\* top_keywords lists the entries of the keyword table of the request, each
\* once with its weight, by weight descending and keyword ascending
TopKeywordsListTable ==
    LET top == ret.meta.top_keywords
        table == keyword_table(Candidates)
    IN  /\ { top[i][1] : i \in 1..Len(top) } = DOMAIN table
        /\ Len(top) = Cardinality(DOMAIN table)
        /\ \A i \in 1..Len(top) : top[i][2] = table[top[i][1]]
        /\ \A i \in 1..(Len(top) - 1) :
               \/ top[i][2] > top[i + 1][2]
               \/ (top[i][2] = top[i + 1][2] /\ token_lt(top[i][1], top[i + 1][1]))
        /\ ((\A i \in SeenIndexes(Candidates) : tokenize_title(Candidates[i].title) = <<>>)
               => top = <<>>)

\* C21 as claimed: KeywordFromSeenRecommender.recommend returns a
\* meta.top_keywords that lists every entry of the keyword table exactly once
\* as (keyword, weight), by weight descending and for equal weight by keyword
\* ascending, and that is empty when there are no seen items or the seen
\* titles yield no tokens.
C21_AsClaimed ==
    last.op = "keyword_from_seen" => (last.error = NoError /\ TopKeywordsListTable)

\* the same on the requests whose items all carry the seen attribute
C21_OnItemsWithSeen ==
    (last.op = "keyword_from_seen" /\ AllHaveSeen(Candidates)) =>
        (last.error = NoError /\ TopKeywordsListTable)

-----------------------------------------------------------------------------
(* C22 *)

\* the items a feed yields: one per entry that has a video_id, in feed order
FetchedItems(videos) ==
    LET with_id == SelectSeq(videos, LAMBDA v : v.video_id # NoId)
    IN  [i \in 1..Len(with_id) |->
            MkItem(with_id[i].video_id, with_id[i].title, with_id[i].published, "absent")]

FetchStep == last'.op = "fetch_youtube_new_items"

\* C22: every call of fetch_youtube_new_items returns, in fetch order,
\* exactly the fetched items whose item_id load_all did not return before the
\* call, and afterwards every fetched item is stored; so a call on an empty
\* store returns all fetched items, a call that repeats the feed of the call
\* before returns the empty list and leaves the file as it is, and a call
\* whose feed is that of the call before plus one new entry returns only
\* that entry.
C22_FetchReturnsNewItems ==
    [][FetchStep =>
        LET fetched == FetchedItems(ret'.videos)
        IN  /\ last'.error = NoError
            /\ ret'.added =
                   SelectSeq(fetched, LAMBDA item : item.item_id \notin LoadedIds(file))
            /\ \A id \in IdsOf(fetched) :
                   StoredItems(file', id) =
                       {[LastWithId(fetched, id) EXCEPT !.published = dt_to_str(@)]}
            /\ (LoadedIds(file) = {} => ret'.added = fetched)
            /\ (last.op = "fetch_youtube_new_items" /\ ret'.videos = ret.videos) =>
                   (ret'.added = <<>> /\ file' = file)
            /\ \A v \in FeedEntries :
                   (/\ last.op = "fetch_youtube_new_items"
                    /\ ret'.videos = Append(ret.videos, v)
                    /\ v.video_id # NoId
                    /\ v.video_id \notin LoadedIds(file)) =>
                       ret'.added = FetchedItems(<<v>>)
    ]_vars

\* a fetch whose feed holds a stored video and a new one has returned the new
\* one only, and both are stored
C22_Witness ==
    /\ last.op = "fetch_youtube_new_items"
    /\ last.error = NoError
    /\ Len(ret.videos) = 2
    /\ ret.videos[1].video_id = 1
    /\ ret.videos[2].video_id = 2
    /\ ret.added = FetchedItems(<<ret.videos[2]>>)
    /\ LoadedIds(file) = {1, 2}

-----------------------------------------------------------------------------
(* C23 *)

\* the stored dictionaries without their seen flag
WithoutSeen(f) == [i \in 1..Len(f.items) |-> [f.items[i] EXCEPT !.seen = "absent"]]

\* C23: modify seen|unseen of an item_id load_all returns ends with exit
\* code 0 and changes nothing in the store but that item's seen flag, which
\* becomes the requested one; modify of an item_id load_all does not return
\* ends with exit code 1 and leaves the file as it is, a missing file stays
\* missing.
C23_AsClaimed ==
    (AtStoreContents /\ Loadable(file)) =>
        \A action \in {"seen", "unseen"}, item_id \in ItemIds :
            LET r == handle_modify_command(file, action, item_id)
            IN  IF item_id \in LoadedIds(file)
                THEN /\ r.code = 0
                     /\ WithoutSeen(r.file) = WithoutSeen(file)
                     /\ \A d \in StoredItems(r.file, item_id) :
                            d.seen = IF action = "seen" THEN "true" ELSE "false"
                ELSE /\ r.code = 1
                     /\ r.file = file

\* the half of C23 about an item_id that is not in the store
C23_NotInStore ==
    (AtStoreContents /\ Loadable(file)) =>
        \A action \in {"seen", "unseen"}, item_id \in ItemIds \ LoadedIds(file) :
            LET r == handle_modify_command(file, action, item_id)
            IN  r.code = 1 /\ r.file = file

-----------------------------------------------------------------------------
(* C24 *)

SingleRendered == last.op = "render_recommendation_markdown"

\* the places of the 'Top keywords' lines of a rendered text
TopKeywordsPlaces(text) ==
    {i \in 1..Len(text) : text[i].kind = "meta" /\ text[i].label = "Top keywords"}

\* the pairs as keyword(weight), each one after the first behind ", "
RECURSIVE ClaimedPairs(_)
ClaimedPairs(pairs) ==
    LET n == Len(pairs)
        one == pairs[n][1] \o "(" \o ToString(pairs[n][2]) \o ")"
    IN  IF n = 1 THEN one ELSE ClaimedPairs(SubSeq(pairs, 1, n - 1)) \o ", " \o one

\* C24: the rendering of one result has a 'Top keywords' line exactly when
\* meta.strategy is 'keyword_from_seen' and meta has a top_keywords entry;
\* the line then is the only one, and lists the pairs in the given order as
\* keyword(weight) joined by ', ', or reads '(none)' when the list is empty;
\* a result with no items and an empty meta renders as the empty string.
C24_TopKeywordsLine ==
    SingleRendered =>
        LET meta == ret.result.meta
            places == TopKeywordsPlaces(ret.text)
            shown == /\ "strategy" \in DOMAIN meta
                     /\ meta.strategy = "keyword_from_seen"
                     /\ "top_keywords" \in DOMAIN meta
        IN  /\ shown <=> places # {}
            /\ Cardinality(places) <= 1
            /\ \A i \in places :
                   ret.text[i].text =
                       IF meta.top_keywords = <<>> THEN "(none)"
                       ELSE ClaimedPairs(meta.top_keywords)
            /\ (ret.result.items = <<>> /\ DOMAIN meta = {}) => ret.text = <<Blank>>

\* a result of the keyword strategy with three keywords has been rendered
\* with its 'Top keywords' line
C24_Witness ==
    /\ SingleRendered
    /\ "top_keywords" \in DOMAIN ret.result.meta
    /\ Len(ret.result.meta.top_keywords) = 3
    /\ \E i \in TopKeywordsPlaces(ret.text) :
           ret.text[i].text = "python(2), programming(1), tutorial(1)"

-----------------------------------------------------------------------------
(* C25 *)

MultiRendered == last.op = "render_multi_recommendation_markdown"

TitleLine == Line("h1", "", "Recommended Items")

NonBlank(text) == SelectSeq(text, LAMBDA line : line # Blank)

\* the texts of the level-2 headings of a rendered text, in order
HeadingTexts(text) ==
    LET headings == SelectSeq(text, LAMBDA line : line.kind = "h2")
    IN  [i \in 1..Len(headings) |-> headings[i].text]

\* per section: its heading, its meta lines, its items numbered from 1
RECURSIVE ClaimedSections(_)
ClaimedSections(sections) ==
    IF sections = <<>> THEN <<>>
    ELSE <<Line("h2", "", sections[1][1])>>
         \o NonBlank(meta_lines(sections[1][2].meta))
         \o NonBlank(items_sections(sections[1][2].items, 1))
         \o ClaimedSections(Tail(sections))

\* per section: its title, then "1. <title>", "2. <title>", ... of its items
RECURSIVE ClaimedHeadings(_)
ClaimedHeadings(sections) ==
    IF sections = <<>> THEN <<>>
    ELSE LET items == sections[1][2].items
         IN  <<sections[1][1]>>
             \o [i \in 1..Len(items) |-> ToString(i) \o ". " \o items[i].title]
             \o ClaimedHeadings(Tail(sections))

\* C25: the multi-section rendering has '# Recommended Items' as its first
\* line and nowhere else; after it, blank lines aside, come the sections in
\* input order, each as its '## <section_title>' heading, its meta lines and
\* its items numbered from 1 within the section, so that a section without
\* items is its heading and its meta block only; an empty list of sections
\* renders as the title line alone.
C25_MultiSections ==
    MultiRendered =>
        /\ ret.text[1] = TitleLine
        /\ Cardinality({i \in 1..Len(ret.text) : ret.text[i].kind = "h1"}) = 1
        /\ NonBlank(ret.text) = <<TitleLine>> \o ClaimedSections(ret.sections)
        /\ HeadingTexts(ret.text) = ClaimedHeadings(ret.sections)
        /\ ret.sections = <<>> => ret.text = <<TitleLine, Blank>>

\* a report of two sections has been rendered, the first without items and
\* with a meta block, the second with two items numbered 1 and 2
C25_Witness ==
    /\ MultiRendered
    /\ Len(ret.sections) = 2
    /\ ret.sections[1][2].items = <<>>
    /\ "strategy" \in DOMAIN ret.sections[1][2].meta
    /\ Len(ret.sections[2][2].items) = 2
    /\ HeadingTexts(ret.text) =
           <<"Latest", "Keyword from Seen", "1. First Video", "2. Test Video Title">>

-----------------------------------------------------------------------------
(* C26 *)

FetchOps == {"fetch_youtube_new_items", "fetch_and_persist_youtube_items"}

\* the item_ids stored with seen: true
SeenIds(f) ==
    {id \in ItemIds : \E d \in StoredItems(f, id) : d.type = "dict" /\ d.seen = "true"}

\* C26: a fetch does not change the seen flag of a stored item: every item
\* that is stored as seen before a fetch is stored as seen after it, also
\* when the fetch returns its item_id.
C26_AsClaimed ==
    [][(last'.op \in FetchOps /\ last'.error = NoError /\ Loadable(file)) =>
          SeenIds(file) \subseteq SeenIds(file')]_vars

-----------------------------------------------------------------------------
(* C27 *)

DiffDone == last.op = "diff_new_items"

\* the places of new_items whose item_id is non-empty and not an item_id of
\* old_items
NewPlaces(old_items, new_items) ==
    {i \in 1..Len(new_items) :
        /\ new_items[i].item_id # NoId
        /\ \A j \in 1..Len(old_items) : old_items[j].item_id # new_items[i].item_id}

\* the k-th smallest element of a set of places
Nth(places, k) ==
    CHOOSE i \in places : Cardinality({j \in places : j <= i}) = k

\* C27: diff_new_items(old, new) returns the elements of new at the places
\* whose item_id is non-empty and not in old, in the order of new, an
\* item_id that is repeated in new and absent from old once per occurrence;
\* old is consulted for its item_ids only: any old list with the same set of
\* item_ids, whatever its other fields, its order and its repetitions, gives
\* the same result.
C27_DiffNewItems ==
    DiffDone =>
        LET places == NewPlaces(ret.old_items, ret.new_items)
        IN  /\ Len(ret.new_only_items) = Cardinality(places)
            /\ \A k \in 1..Len(ret.new_only_items) :
                   ret.new_only_items[k] = ret.new_items[Nth(places, k)]
            /\ \A other \in DiffLists :
                   IdsOf(other) = IdsOf(ret.old_items) =>
                       diff_new_items(other, ret.new_items) = ret.new_only_items

\* an item_id twice in new and not in old has been returned twice, next to
\* an old list that holds another item_id twice
C27_Witness ==
    /\ DiffDone
    /\ Len(ret.old_items) = 2
    /\ ret.old_items[1].item_id = 1
    /\ ret.old_items[2].item_id = 1
    /\ Len(ret.new_items) = 2
    /\ ret.new_items[1].item_id = 2
    /\ ret.new_items[2].item_id = 2
    /\ ret.new_only_items = ret.new_items

-----------------------------------------------------------------------------
(* C28 *)

BothSaved == last.op = "save_many" /\ "joint" \in DOMAIN ret

-----------------------------------------------------------------------------
(* C29 *)

NoCallInProgress == \A w \in Writers : ret.pc[w] = "idle"

\* C29: as long as no save_many call has read the file between the read and
\* the write of another call, every item_id passed to a save_many call that
\* has returned is in the file.
C29_SerialCallsKeepItems ==
    ~ret.interleaved => ret.saved \subseteq LoadedIds(file)

\* the lost update: two calls have alternated, both have returned, and an
\* item_id passed to one of them is not in the file
C29_Witness ==
    /\ NoCallInProgress
    /\ ret.interleaved
    /\ ret.calls = [w \in Writers |-> 1]
    /\ \E id \in ret.saved : id \notin LoadedIds(file)

-----------------------------------------------------------------------------
(* C30 *)

DistinctIds(items) ==
    \A i, j \in 1..Len(items) : i # j => items[i].item_id # items[j].item_id

\* the rearrangements of a list
Perms(items) ==
    { [i \in 1..Len(items) |-> items[p[i]]] :
        p \in { q \in [1..Len(items) -> 1..Len(items)] :
                  \A i, j \in 1..Len(items) : i # j => q[i] # q[j] } }

\* the call on every rearrangement of the request items returns what the
\* call on the request returned
SameForEveryOrder ==
    \A items \in Perms(Candidates) :
        IF last.op = "latest"
        THEN LET r == LatestRecommender_recommend(items, ret.limit)
             IN  r.error = NoError /\ r.items = ret.items
        ELSE LET r == KeywordFromSeenRecommender_recommend(items, ret.limit)
             IN  /\ r.error = NoError
                 /\ r.items = ret.items
                 /\ r.meta.top_keywords = ret.meta.top_keywords

\* C30 as claimed: for request items with pairwise distinct item_ids,
\* LatestRecommender.recommend and the keyword recommender return a ranked
\* list, and the keyword recommender a meta.top_keywords, that is the same
\* for every order of the request items.
C30_AsClaimed ==
    (last.op \in {"latest", "keyword_from_seen"} /\ DistinctIds(Candidates)) =>
        (last.error = NoError /\ SameForEveryOrder)

\* the same on the requests whose items all carry the seen attribute
C30_OnItemsWithSeen ==
    (/\ last.op \in {"latest", "keyword_from_seen"}
     /\ DistinctIds(Candidates)
     /\ AllHaveSeen(Candidates)) =>
        (last.error = NoError /\ SameForEveryOrder)

====
